---- MODULE Spec2Model ----
(***************************************************************************)
(* TRPO training-loop orchestrator (PolicyGradient/TRPO/trpo.py): object   *)
(* construction with optional model loading, learn, eval and save, over a  *)
(* one-parameter toy policy / value function and exact rational GAE.       *)
(*                                                                         *)
(* Objects live in a heap and the orchestrator, the collector and the      *)
(* value optimizer hold references into it, so that aliasing is explicit.  *)
(***************************************************************************)
EXTENDS Integers, Sequences, FiniteSets, TLC

\* ------------------------------------------------------------------ bounds
MaxBatch == 2        \* longest batch returned by the collector
MinBatch == 1        \* min_batch_size handed to the collector
MaxN == 3            \* observations the running normalizer may absorb
MaxEpLen == 2        \* time limit of an evaluation episode
MaxBacktracks == 2   \* line-search attempts
ThetaMax == 2        \* |policy parameter| kept in range
WMax == 1            \* |value parameter| kept in range
MaxLen == 3          \* longest input of the stand-alone estimator runs
AdvMax == 4          \* |advantage| of the stand-alone update runs

\* --------------------------------------------------------------- universe
None == "None"
NoCollector == [policy |-> None, running_state |-> None]
Missing == [exists |-> FALSE, data |-> <<>>]
Paths == {"models"}
EnvIds == {"env"}
ObsVals == {0, 1}
Acts == {0, 1}

\* object identities: the freshly initialised nets / filter, and the ones
\* pickle.load creates
FreshPol == "policy_fresh"
FreshVal == "value_fresh"
FreshRs == "zfilter_fresh"
LoadedPol == "policy_loaded"
LoadedVal == "value_loaded"
LoadedRs == "zfilter_loaded"

\* parameters produced by the seeded initialisation
InitTheta == 0
InitW == 0
InitRs == [n |-> 0, sum |-> 0]

\* gamma and tau (constructor arguments) as exact rationals
\* <<numerator, denominator>>; 1/2 stands in for the defaults 0.99 and 0.95
\* so that every advantage stays an exactly representable integer multiple
DefaultGamma == <<1, 2>>
DefaultTau == <<1, 2>>

\* ---------------------------------------------------------------- helpers
RECURSIVE Pow(_, _)
Pow(b, e) == IF e <= 0 THEN 1 ELSE b * Pow(b, e - 1)

Abs(x) == IF x < 0 THEN -x ELSE x
Sign(x) == IF x > 0 THEN 1 ELSE IF x < 0 THEN -1 ELSE 0

RECURSIVE SumTo(_, _)
SumTo(f, n) == IF n = 0 THEN 0 ELSE f[n] + SumTo(f, n - 1)

SeqSum(s) == SumTo(s, Len(s))

\* ----------------------------------------------------- running normalizer
\* ZFilter: every call pushes the observation into the running statistics
\* and returns the demeaned observation (here: its sign).
RsPush(rs, x) == [n |-> rs.n + 1, sum |-> rs.sum + x]

ZFilterOut(rs, x) == Sign(x * rs.n - rs.sum)

RECURSIVE RsAfter(_, _, _)
RsAfter(rs, obs, i) == IF i = 0 THEN rs ELSE RsPush(RsAfter(rs, obs, i - 1), obs[i])

\* ------------------------------------------------------- toy approximators
\* policy: log-probability (base 2, unnormalised) of an action
ActSign(a) == IF a = 1 THEN 1 ELSE -1
LogProb(theta, a) == theta * ActSign(a)

\* value network forward pass
ValueNet(w, s) == w * s

\* environment reward
EnvReward(x, a) == IF a = x THEN 1 ELSE 0

\* ------------------------------------------------------ advantage estimator
\* All results are carried exactly, as integers scaled by GaeScale: with
\* gamma = gn/gd and tau = ln/ld every advantage of an N-long batch is a
\* multiple of 1 / (gd * (gd*ld)^(N-1)).
GaeScale(N, gamma, tau) == gamma[2] * Pow(gamma[2] * tau[2], N - 1)

\* estimate_advantages(rewards, masks, values, gamma, tau): backward pass
\*   delta_i = r_i + gamma * m_i * V_{i+1} - V_i        (V_{N+1} = 0)
\*   adv_i   = delta_i + gamma * tau * m_i * adv_{i+1}  (adv_{N+1} = 0)
\*   ret_i   = adv_i + V_i
EstimateAdvantages(rewards, masks, values, gamma, tau) ==
    LET N == Len(rewards)
        S == GaeScale(N, gamma, tau)
        delta(i) == S * (rewards[i] - values[i])
                    + (IF i = N THEN 0
                       ELSE gamma[1] * masks[i] * ((S \div gamma[2]) * values[i + 1]))
        adv[i \in 1..N] ==
            delta(i) + (IF i = N THEN 0
                        ELSE (gamma[1] * tau[1] * masks[i] * adv[i + 1])
                             \div (gamma[2] * tau[2]))
    IN [advantages |-> [i \in 1..N |-> adv[i]],
        returns |-> [i \in 1..N |-> adv[i] + S * values[i]]]

\* ------------------------------------------------- constrained policy update
\* Parameters are measured in the unit in which the Fisher information is 1
\* and the smallest line-search candidate has length 1, so that the full
\* natural-gradient step sqrt(2 * max_kl / xFx) * x has length FullStepMag
\* and 2 * max_kl = FullStepMag^2.
ShrinkDen == 2
FullStepMag == Pow(ShrinkDen, MaxBacktracks - 1)
MaxKL2 == FullStepMag * FullStepMag
RatioShift == 2 * FullStepMag

\* importance ratio exp(new_log_prob - old_log_prob), scaled by 2^RatioShift
Ratio(theta, tr) == Pow(2, RatioShift + LogProb(theta, tr.action) - tr.log_prob)

\* surrogate objective (batch sum; the mean is this over the batch length)
Surrogate(theta, batch, adv) ==
    SeqSum([i \in 1..Len(batch) |-> adv[i] * Ratio(theta, batch[i])])

\* its gradient in theta, up to the positive factor ln 2
PolicyGrad(theta, batch, adv) ==
    SeqSum([i \in 1..Len(batch) |->
              adv[i] * ActSign(batch[i].action) * Ratio(theta, batch[i])])

\* Fisher-vector product and the conjugate-gradient solution of F x = g
Fvp(v) == v
ConjGrad(g) == g

\* twice the measured mean KL between the pre-step policy and a candidate:
\* the quadratic model, doubled when the candidate moves into the region of
\* higher curvature (towards theta = 0)
KL2(theta0, theta) ==
    (theta - theta0) * (theta - theta0) * (IF Abs(theta) < Abs(theta0) THEN 2 ELSE 1)

Candidate(prev, fullstep, k) == prev + Sign(fullstep) * (Abs(fullstep) \div Pow(ShrinkDen, k))

Acceptable(prev, cand, batch, adv) ==
    /\ KL2(prev, cand) <= MaxKL2
    /\ Surrogate(cand, batch, adv) >= Surrogate(prev, batch, adv)

\* backtracking line search: attempt k = 0 is the full step; the result is
\* the accepted parameters, or the snapshot taken before the first trial
RECURSIVE LineSearch(_, _, _, _, _)
LineSearch(prev, fullstep, batch, adv, k) ==
    IF k >= MaxBacktracks
    THEN [success |-> FALSE, theta |-> prev, tries |-> k]
    ELSE IF Acceptable(prev, Candidate(prev, fullstep, k), batch, adv)
         THEN [success |-> TRUE, theta |-> Candidate(prev, fullstep, k), tries |-> k + 1]
         ELSE LineSearch(prev, fullstep, batch, adv, k + 1)

\* value fit: one descent step on the squared error against the returns
ValueFit(w, batch, returns, scale) ==
    w - Sign(SeqSum([i \in 1..Len(batch) |->
                       (scale * ValueNet(w, batch[i].state) - returns[i]) * batch[i].state]))

\* trpo_step: value fit, then gradient, CG direction, step size and line
\* search; x.F.x <= 0 is fatal and leaves the policy as it was (only the
\* sign of x.F.x is computed: the step length is fixed by the unit)
TrpoStep(theta, w, batch, returns, adv, scale) ==
    LET w2 == ValueFit(w, batch, returns, scale)
        g == PolicyGrad(theta, batch, adv)
        x == ConjGrad(g)
        shs == Sign(x) * Sign(Fvp(x))
        ls == LineSearch(theta, Sign(x) * FullStepMag, batch, adv, 0)
    IN IF shs <= 0
       THEN [theta |-> theta, w |-> w2, status |-> "fatal", tries |-> 0, grad |-> g]
       ELSE [theta |-> ls.theta, w |-> w2,
             status |-> IF ls.success THEN "accepted" ELSE "noop",
             tries |-> ls.tries, grad |-> g]

\* ------------------------------------------------------------- persistence
\* pickle.dump of the tuple (policy_net, value_net, running_state): the
\* stream of pickled fields; pickle.load parses a complete stream back and
\* raises on a missing or incomplete one.
UnitLen == 4

\* a mutation of the dump: the normalizer statistics are not written
PickleDump_nofilter(unit) == <<unit[1], unit[2], InitRs.n, InitRs.sum>>

PickleDump(unit) == <<unit[1], unit[2], unit[3].n, unit[3].sum>>

\* a file: absent, or present with the bytes written so far
Written(data) == [exists |-> TRUE, data |-> data]

Loadable(file) == file.exists /\ Len(file.data) = UnitLen

PickleLoad(file) ==
    <<file.data[1], file.data[2], [n |-> file.data[3], sum |-> file.data[4]]>>

FileKey(path, env) == <<path, env>>

\* ------------------------------------------------------------------- state
VARIABLES
    alive,            \* "none": no orchestrator; "ok": constructed; "error": __init__ raised
    env_id,           \* self.env_id
    model_path,       \* self.model_path
    gamma, tau,       \* self.gamma, self.tau
    load_attempts,    \* pickle.load calls made by the last construction
    heap,             \* object identity -> parameters / statistics
    policy_net,       \* self.policy_net (a reference)
    value_net,        \* self.value_net
    running_state,    \* self.running_state
    collector,        \* self.collector: the references the collector was given
    optimizer_v,      \* self.optimizer_v: the value object whose parameters it holds
    fs,               \* the persisted model files
    pc,               \* position inside learn / eval / save
    op,               \* the operation entered last
    writer,           \* learn's writer argument is a sink (TRUE) or absent (FALSE)
    batch,            \* learn's batch
    batch_value, batch_advantage, batch_return,
    step_log,         \* what the last trpo_step reported
    state, eval_len,  \* eval's current observation and step count
    save_path         \* save's argument

objvars == <<alive, env_id, model_path, gamma, tau, load_attempts, heap, policy_net,
             value_net, running_state, collector, optimizer_v>>
learnvars == <<writer, batch, batch_value, batch_advantage, batch_return, step_log>>
evalvars == <<state, eval_len>>
vars == <<objvars, fs, pc, op, learnvars, evalvars, save_path>>

NoStep == [status |-> "none", tries |-> 0, grad |-> 0]

FreshHeap == (FreshPol :> InitTheta) @@ (FreshVal :> InitW) @@ (FreshRs :> InitRs)

\* ------------------------------------------------------------ construction
\* a mutation of _init_model: the collector is created before the load
InitModel_collectorFirst(mp, env, files) ==
    LET file == files[FileKey(mp, env)] IN
    IF mp = None
    THEN [alive |-> "ok", attempts |-> 0, heap |-> FreshHeap,
          policy_net |-> FreshPol, value_net |-> FreshVal, running_state |-> FreshRs,
          collector |-> [policy |-> FreshPol, running_state |-> FreshRs],
          optimizer_v |-> FreshVal]
    ELSE IF ~Loadable(file)
    THEN [alive |-> "error", attempts |-> 1, heap |-> FreshHeap,
          policy_net |-> FreshPol, value_net |-> FreshVal, running_state |-> FreshRs,
          collector |-> [policy |-> FreshPol, running_state |-> FreshRs],
          optimizer_v |-> None]
    ELSE [alive |-> "ok", attempts |-> 1,
          heap |-> FreshHeap @@ (LoadedPol :> PickleLoad(file)[1])
                             @@ (LoadedVal :> PickleLoad(file)[2])
                             @@ (LoadedRs :> PickleLoad(file)[3]),
          policy_net |-> LoadedPol, value_net |-> LoadedVal, running_state |-> LoadedRs,
          collector |-> [policy |-> FreshPol, running_state |-> FreshRs],
          optimizer_v |-> LoadedVal]

\* a mutation of _init_model: a failed load is swallowed and training starts
\* from the fresh parameters
InitModel_fallback(mp, env, files) ==
    LET file == files[FileKey(mp, env)] IN
    IF mp = None \/ ~Loadable(file)
    THEN [alive |-> "ok", attempts |-> IF mp = None THEN 0 ELSE 1, heap |-> FreshHeap,
          policy_net |-> FreshPol, value_net |-> FreshVal, running_state |-> FreshRs,
          collector |-> [policy |-> FreshPol, running_state |-> FreshRs],
          optimizer_v |-> FreshVal]
    ELSE [alive |-> "ok", attempts |-> 1,
          heap |-> FreshHeap @@ (LoadedPol :> PickleLoad(file)[1])
                             @@ (LoadedVal :> PickleLoad(file)[2])
                             @@ (LoadedRs :> PickleLoad(file)[3]),
          policy_net |-> LoadedPol, value_net |-> LoadedVal, running_state |-> LoadedRs,
          collector |-> [policy |-> LoadedPol, running_state |-> LoadedRs],
          optimizer_v |-> LoadedVal]

\* _init_model: fresh nets and filter; with a model path the three are
\* replaced by the unpickled ones (pickle.load / open raising ends __init__);
\* then the collector and the value optimizer are bound
InitModel(mp, env, files) ==
    LET file == files[FileKey(mp, env)] IN
    IF mp = None
    THEN [alive |-> "ok", attempts |-> 0, heap |-> FreshHeap,
          policy_net |-> FreshPol, value_net |-> FreshVal, running_state |-> FreshRs,
          collector |-> [policy |-> FreshPol, running_state |-> FreshRs],
          optimizer_v |-> FreshVal]
    ELSE IF ~Loadable(file)
    THEN [alive |-> "error", attempts |-> 1, heap |-> FreshHeap,
          policy_net |-> FreshPol, value_net |-> FreshVal, running_state |-> FreshRs,
          collector |-> NoCollector, optimizer_v |-> None]
    ELSE [alive |-> "ok", attempts |-> 1,
          heap |-> FreshHeap @@ (LoadedPol :> PickleLoad(file)[1])
                             @@ (LoadedVal :> PickleLoad(file)[2])
                             @@ (LoadedRs :> PickleLoad(file)[3]),
          policy_net |-> LoadedPol, value_net |-> LoadedVal, running_state |-> LoadedRs,
          collector |-> [policy |-> LoadedPol, running_state |-> LoadedRs],
          optimizer_v |-> LoadedVal]

\* TRPO(env_id, ..., model_path = mp): __init__ and _init_model
Construct ==
    /\ pc = "idle"
    /\ \E mp \in Paths \cup {None}, env \in EnvIds :
         LET m == InitModel(mp, env, fs) IN
         /\ alive' = m.alive
         /\ env_id' = env
         /\ model_path' = mp
         /\ gamma' = DefaultGamma
         /\ tau' = DefaultTau
         /\ load_attempts' = m.attempts
         /\ heap' = m.heap
         /\ policy_net' = m.policy_net
         /\ value_net' = m.value_net
         /\ running_state' = m.running_state
         /\ collector' = m.collector
         /\ optimizer_v' = m.optimizer_v
    /\ op' = "construct"
    /\ step_log' = NoStep
    /\ UNCHANGED <<fs, pc, writer, batch, batch_value, batch_advantage, batch_return,
                   evalvars, save_path>>

\* ------------------------------------------------------------------- learn
\* MemoryCollector.collect_samples: whole episodes, at least MinBatch
\* transitions; every observation passes through the collector's filter
\* and every action is scored by the collector's policy
MakeBatch(theta, rs, obs, acts, masks) ==
    [i \in 1..Len(obs) |->
        [state |-> ZFilterOut(RsAfter(rs, obs, i), obs[i]),
         action |-> acts[i],
         reward |-> EnvReward(obs[i], acts[i]),
         mask |-> masks[i],
         log_prob |-> LogProb(theta, acts[i])]]

CollectSamples(theta, rs) ==
    UNION { { [batch |-> MakeBatch(theta, rs, obs, acts, masks),
               rs |-> RsAfter(rs, obs, N)] :
                 obs \in [1..N -> ObsVals], acts \in [1..N -> Acts],
                 masks \in {m \in [1..N -> {0, 1}] : m[N] = 0} } :
            N \in {n \in MinBatch..MaxBatch : rs.n + n <= MaxN} }

Rewards(b) == [i \in 1..Len(b) |-> b[i].reward]
Masks(b) == [i \in 1..Len(b) |-> b[i].mask]

\* batch_value = self.value_net(batch_state)
BatchValue(w, b) == [i \in 1..Len(b) |-> ValueNet(w, b[i].state)]

InRange(theta, w) == Abs(theta) <= ThetaMax /\ Abs(w) <= WMax

\* learn, first statement: memory, log = self.collector.collect_samples(...)
LearnCollect ==
    /\ alive = "ok" /\ pc = "idle"
    /\ \E wr \in BOOLEAN,
          c \in CollectSamples(heap[collector.policy], heap[collector.running_state]) :
         /\ writer' = wr
         /\ batch' = c.batch
         /\ heap' = [heap EXCEPT ![collector.running_state] = c.rs]
    /\ pc' = "collected"
    /\ op' = "learn"
    /\ batch_value' = <<>> /\ batch_advantage' = <<>> /\ batch_return' = <<>>
    /\ step_log' = NoStep
    /\ UNCHANGED <<alive, env_id, model_path, gamma, tau, load_attempts, policy_net,
                   value_net, running_state, collector, optimizer_v, fs, evalvars,
                   save_path>>

\* writer.add_scalars(...): with no writer the attribute access raises and
\* learn ends there
LearnLog ==
    /\ pc = "collected"
    /\ pc' = IF writer THEN "logged" ELSE "idle"
    /\ UNCHANGED <<objvars, fs, op, learnvars, evalvars, save_path>>

\* a mutation of the value pass: the value net is already fitted (towards
\* the rewards) when the estimates are taken
LearnValue_fitfirst ==
    /\ pc = "logged"
    /\ Abs(ValueFit(heap[value_net], batch, Rewards(batch), 1)) <= WMax
    /\ heap' = [heap EXCEPT ![value_net] = ValueFit(@, batch, Rewards(batch), 1)]
    /\ batch_value' = BatchValue(heap'[value_net], batch)
    /\ pc' = "valued"
    /\ UNCHANGED <<alive, env_id, model_path, gamma, tau, load_attempts, policy_net,
                   value_net, running_state, collector, optimizer_v, fs, op, writer,
                   batch, batch_advantage, batch_return, step_log, evalvars, save_path>>

\* batch = memory.sample(); batch_value = self.value_net(batch_state)
LearnValue ==
    /\ pc = "logged"
    /\ batch_value' = BatchValue(heap[value_net], batch)
    /\ pc' = "valued"
    /\ UNCHANGED <<objvars, fs, op, writer, batch, batch_advantage, batch_return,
                   step_log, evalvars, save_path>>

\* a mutation of the call: masks and value estimates change places
LearnEstimate_swapped ==
    /\ pc = "valued"
    /\ LET e == EstimateAdvantages(Rewards(batch), batch_value, Masks(batch), gamma, tau)
       IN /\ batch_advantage' = e.advantages
          /\ batch_return' = e.returns
    /\ pc' = "estimated"
    /\ UNCHANGED <<objvars, fs, op, writer, batch, batch_value, step_log, evalvars,
                   save_path>>

\* batch_advantage, batch_return = estimate_advantages(...)
LearnEstimate ==
    /\ pc = "valued"
    /\ LET e == EstimateAdvantages(Rewards(batch), Masks(batch), batch_value, gamma, tau)
       IN /\ batch_advantage' = e.advantages
          /\ batch_return' = e.returns
    /\ pc' = "estimated"
    /\ UNCHANGED <<objvars, fs, op, writer, batch, batch_value, step_log, evalvars,
                   save_path>>

\* a mutation of the call: returns and advantages change places
LearnUpdate_swapped ==
    /\ pc = "estimated"
    /\ LET r == TrpoStep(heap[policy_net], heap[value_net], batch, batch_advantage,
                         batch_return, GaeScale(Len(batch), gamma, tau))
       IN /\ InRange(r.theta, r.w)
          /\ heap' = [heap EXCEPT ![policy_net] = r.theta, ![value_net] = r.w]
          /\ step_log' = [status |-> r.status, tries |-> r.tries, grad |-> r.grad]
    /\ pc' = "idle"
    /\ UNCHANGED <<alive, env_id, model_path, gamma, tau, load_attempts, policy_net,
                   value_net, running_state, collector, optimizer_v, fs, op, writer,
                   batch, batch_value, batch_advantage, batch_return, evalvars,
                   save_path>>

\* a mutation of the call: the value estimates are passed as the old
\* log-probabilities
LearnUpdate_logprob ==
    /\ pc = "estimated"
    /\ LET b == [i \in 1..Len(batch) |-> [batch[i] EXCEPT !.log_prob = batch_value[i]]]
           r == TrpoStep(heap[policy_net], heap[value_net], b, batch_return,
                         batch_advantage, GaeScale(Len(batch), gamma, tau))
       IN /\ InRange(r.theta, r.w)
          /\ heap' = [heap EXCEPT ![policy_net] = r.theta, ![value_net] = r.w]
          /\ step_log' = [status |-> r.status, tries |-> r.tries, grad |-> r.grad]
    /\ pc' = "idle"
    /\ UNCHANGED <<alive, env_id, model_path, gamma, tau, load_attempts, policy_net,
                   value_net, running_state, collector, optimizer_v, fs, op, writer,
                   batch, batch_value, batch_advantage, batch_return, evalvars,
                   save_path>>

\* trpo_step(self.policy_net, self.value_net, ...): both nets are updated in
\* place
LearnUpdate ==
    /\ pc = "estimated"
    /\ LET r == TrpoStep(heap[policy_net], heap[value_net], batch, batch_return,
                         batch_advantage, GaeScale(Len(batch), gamma, tau))
       IN /\ InRange(r.theta, r.w)
          /\ heap' = [heap EXCEPT ![policy_net] = r.theta, ![value_net] = r.w]
          /\ step_log' = [status |-> r.status, tries |-> r.tries, grad |-> r.grad]
    /\ pc' = "idle"
    /\ UNCHANGED <<alive, env_id, model_path, gamma, tau, load_attempts, policy_net,
                   value_net, running_state, collector, optimizer_v, fs, op, writer,
                   batch, batch_value, batch_advantage, batch_return, evalvars,
                   save_path>>

\* learn(writer, i_iter) as one step
Learn ==
    /\ alive = "ok" /\ pc = "idle"
    /\ \E wr \in BOOLEAN,
          c \in CollectSamples(heap[collector.policy], heap[collector.running_state]) :
         LET h1 == [heap EXCEPT ![collector.running_state] = c.rs]
             bv == BatchValue(h1[value_net], c.batch)
             e == EstimateAdvantages(Rewards(c.batch), Masks(c.batch), bv, gamma, tau)
             r == TrpoStep(h1[policy_net], h1[value_net], c.batch, e.returns,
                           e.advantages, GaeScale(Len(c.batch), gamma, tau))
         IN IF ~wr
            THEN /\ heap' = h1
                 /\ step_log' = NoStep
            ELSE /\ InRange(r.theta, r.w)
                 /\ heap' = [h1 EXCEPT ![policy_net] = r.theta, ![value_net] = r.w]
                 /\ step_log' = [status |-> r.status, tries |-> r.tries, grad |-> r.grad]
    /\ op' = "learn"
    /\ UNCHANGED <<alive, env_id, model_path, gamma, tau, load_attempts, policy_net,
                   value_net, running_state, collector, optimizer_v, fs, pc, writer,
                   batch, batch_value, batch_advantage, batch_return, evalvars,
                   save_path>>

\* -------------------------------------------------------------------- eval
\* state = self.env.reset()
EvalReset ==
    /\ alive = "ok" /\ pc = "idle"
    /\ heap[running_state].n + MaxEpLen <= MaxN
    /\ state' \in ObsVals
    /\ eval_len' = 0
    /\ pc' = "eval"
    /\ op' = "eval"
    /\ UNCHANGED <<objvars, fs, learnvars, save_path>>

\* one turn of the loop: filter the observation, act, step the environment
EvalStep ==
    /\ pc = "eval"
    /\ heap' = [heap EXCEPT ![running_state] = RsPush(@, state)]
    /\ \E action \in Acts, next \in ObsVals, done \in BOOLEAN :
         /\ (eval_len + 1 = MaxEpLen) => done
         /\ state' = next
         /\ pc' = IF done THEN "idle" ELSE "eval"
    /\ eval_len' = eval_len + 1
    /\ UNCHANGED <<alive, env_id, model_path, gamma, tau, load_attempts, policy_net,
                   value_net, running_state, collector, optimizer_v, fs, op, learnvars,
                   save_path>>

\* eval(i_iter) as one step
Eval ==
    /\ alive = "ok" /\ pc = "idle"
    /\ heap[running_state].n + MaxEpLen <= MaxN
    /\ \E L \in 1..MaxEpLen, obs \in [1..MaxEpLen -> ObsVals] :
         heap' = [heap EXCEPT ![running_state] = RsAfter(@, obs, L)]
    /\ op' = "eval"
    /\ UNCHANGED <<alive, env_id, model_path, gamma, tau, load_attempts, policy_net,
                   value_net, running_state, collector, optimizer_v, fs, pc, learnvars,
                   evalvars, save_path>>

\* -------------------------------------------------------------------- save
CurrentUnit == <<heap[policy_net], heap[value_net], heap[running_state]>>

\* check_path(save_path); open(.., 'wb'): the file exists and is empty
SaveOpen ==
    /\ alive = "ok" /\ pc = "idle"
    /\ \E path \in Paths :
         /\ save_path' = path
         /\ fs' = [fs EXCEPT ![FileKey(path, env_id)] = Written(<<>>)]
    /\ pc' = "save_open"
    /\ op' = "save"
    /\ UNCHANGED <<objvars, learnvars, evalvars>>

\* pickle.dump(...) runs to its end
SaveDump ==
    /\ pc = "save_open"
    /\ fs' = [fs EXCEPT ![FileKey(save_path, env_id)] = Written(PickleDump(CurrentUnit))]
    /\ pc' = "idle"
    /\ UNCHANGED <<objvars, op, learnvars, evalvars, save_path>>

\* the process ends (or the write fails) inside pickle.dump: what was
\* written so far stays on disk, the orchestrator is gone
SaveInterrupted ==
    /\ pc = "save_open"
    /\ \E k \in 0..(UnitLen - 1) :
         fs' = [fs EXCEPT ![FileKey(save_path, env_id)] =
                              Written(SubSeq(PickleDump(CurrentUnit), 1, k))]
    /\ alive' = "none"
    /\ heap' = FreshHeap
    /\ policy_net' = FreshPol /\ value_net' = FreshVal /\ running_state' = FreshRs
    /\ collector' = NoCollector /\ optimizer_v' = None
    /\ load_attempts' = 0
    /\ model_path' = None
    /\ step_log' = NoStep
    /\ pc' = "idle"
    /\ UNCHANGED <<env_id, gamma, tau, op, writer, batch, batch_value, batch_advantage,
                   batch_return, evalvars, save_path>>

\* ---------------------------------------------------------- specifications
Unbuilt ==
    /\ alive = "none"
    /\ env_id \in EnvIds
    /\ model_path = None
    /\ gamma = DefaultGamma /\ tau = DefaultTau
    /\ load_attempts = 0
    /\ heap = FreshHeap
    /\ policy_net = FreshPol /\ value_net = FreshVal /\ running_state = FreshRs
    /\ collector = NoCollector /\ optimizer_v = None

Quiet ==
    /\ pc = "idle" /\ op = "none"
    /\ writer = TRUE
    /\ batch = <<>> /\ batch_value = <<>> /\ batch_advantage = <<>> /\ batch_return = <<>>
    /\ step_log = NoStep
    /\ state = 0 /\ eval_len = 0
    /\ save_path \in Paths

\* the whole life of an orchestrator: construction (with or without a model
\* path), learn, eval and save, over a file system that starts empty
Init ==
    /\ Unbuilt /\ Quiet
    /\ fs = [k \in Paths \X EnvIds |-> Missing]

Next ==
    \/ Construct
    \/ Learn
    \/ Eval
    \/ SaveOpen
    \/ SaveDump
    \/ SaveInterrupted

Spec == Init /\ [][Next]_vars

\* an orchestrator constructed without a model path
Built ==
    /\ alive = "ok"
    /\ env_id \in EnvIds
    /\ model_path = None
    /\ load_attempts = 0
    /\ policy_net = FreshPol /\ value_net = FreshVal /\ running_state = FreshRs
    /\ collector = [policy |-> FreshPol, running_state |-> FreshRs]
    /\ optimizer_v = FreshVal

\* learn and eval statement by statement, on a freshly constructed
\* orchestrator
InitRun ==
    /\ Built /\ Quiet
    /\ heap = FreshHeap
    /\ gamma = DefaultGamma /\ tau = DefaultTau
    /\ fs = [k \in Paths \X EnvIds |-> Missing]

NextRun ==
    \/ LearnCollect
    \/ LearnLog
    \/ LearnValue
    \/ LearnEstimate
    \/ LearnUpdate
    \/ EvalReset
    \/ EvalStep

SpecRun == InitRun /\ [][NextRun]_vars

\* the advantage estimation statement of learn on arbitrary rewards, masks
\* and value estimates
GammaVals == {<<1, 2>>, <<2, 3>>}
TauVals == {<<0, 1>>, <<1, 2>>, <<1, 1>>}
RewardVals == {0, 1}
ValueVals == {-1, 0, 1}

InitGAE ==
    /\ Built
    /\ heap = [FreshHeap EXCEPT ![FreshVal] = 1]
    /\ gamma \in GammaVals /\ tau \in TauVals
    /\ fs = [k \in Paths \X EnvIds |-> Missing]
    /\ pc = "valued" /\ op = "learn" /\ writer = TRUE
    /\ \E N \in 1..MaxLen :
         \E r \in [1..N -> RewardVals], m \in [1..N -> {0, 1}], v \in [1..N -> ValueVals] :
            /\ batch = [i \in 1..N |-> [state |-> v[i], action |-> 0, reward |-> r[i],
                                        mask |-> m[i], log_prob |-> LogProb(InitTheta, 0)]]
            /\ batch_value = BatchValue(1, batch)
    /\ batch_advantage = <<>> /\ batch_return = <<>>
    /\ step_log = NoStep
    /\ state = 0 /\ eval_len = 0
    /\ save_path \in Paths

NextGAE == LearnEstimate

SpecGAE == InitGAE /\ [][NextGAE]_vars

\* the update statement of learn on arbitrary advantages and returns
AdvVals == {-AdvMax, 1 - AdvMax, 0, 1, AdvMax - 1}

InitStep ==
    /\ Built
    /\ gamma = DefaultGamma /\ tau = DefaultTau
    /\ \E theta \in (-ThetaMax)..ThetaMax, w \in (-WMax)..WMax :
         /\ heap = [FreshHeap EXCEPT ![FreshPol] = theta, ![FreshVal] = w]
         /\ \E N \in 1..MaxBatch :
              \E a \in [1..N -> Acts], adv \in [1..N -> AdvVals] :
                 /\ batch = [i \in 1..N |-> [state |-> 1, action |-> a[i], reward |-> 0,
                                             mask |-> IF i = N THEN 0 ELSE 1,
                                             log_prob |-> LogProb(theta, a[i])]]
                 /\ batch_value = BatchValue(w, batch)
                 /\ batch_advantage = adv
                 /\ batch_return =
                       [i \in 1..N |-> adv[i] + GaeScale(N, gamma, tau) * batch_value[i]]
    /\ fs = [k \in Paths \X EnvIds |-> Missing]
    /\ pc = "estimated" /\ op = "learn" /\ writer = TRUE
    /\ step_log = NoStep
    /\ state = 0 /\ eval_len = 0
    /\ save_path \in Paths

NextStep == LearnUpdate

SpecStep == InitStep /\ [][NextStep]_vars

\* ------------------------------------------------------------------ claims
AllZero(q) == \A i \in 1..Len(q) : q[i] = 0

\* C1: within learn the phases follow one another in the order collect,
\* log, value estimates, advantage estimation, update; no policy or value
\* parameter changes before the update; and when the update starts the
\* batch is a complete collection, the value estimates are those of the
\* still unmodified value parameters and the advantages / returns are the
\* estimator's output for them.
C1_PhasesInOrder ==
    [][ /\ (pc' = "collected" /\ pc' # pc) => pc = "idle"
        /\ (pc' = "logged" /\ pc' # pc) => pc = "collected"
        /\ (pc' = "valued" /\ pc' # pc) => pc = "logged"
        /\ (pc' = "estimated" /\ pc' # pc) => pc = "valued"
        /\ (pc = "estimated" /\ pc' # pc) => pc' = "idle"
        /\ (pc \in {"idle", "collected", "logged", "valued"}) =>
              /\ heap'[policy_net] = heap[policy_net]
              /\ heap'[value_net] = heap[value_net]
        /\ (pc' = "estimated") =>
              /\ Len(batch') >= MinBatch
              /\ batch'[Len(batch')].mask = 0
              /\ batch_value' = BatchValue(heap'[value_net], batch')
              /\ \A i \in 1..Len(batch') :
                    batch'[i].log_prob = LogProb(heap'[policy_net], batch'[i].action)
              /\ batch_advantage' =
                    EstimateAdvantages(Rewards(batch'), Masks(batch'), batch_value',
                                       gamma', tau').advantages
              /\ batch_return' =
                    EstimateAdvantages(Rewards(batch'), Masks(batch'), batch_value',
                                       gamma', tau').returns
      ]_vars

\* C1 witness: a learn call ran through all its phases and its update moved
\* the policy
C1_Witness ==
    /\ pc = "idle" /\ op = "learn"
    /\ step_log.status = "accepted"
    /\ Len(batch) = MaxBatch

\* C2: a line search ends with the policy at the pre-step parameters plus
\* the first candidate (full step, then shrunk) whose measured KL is within
\* max_kl and whose surrogate is not below the pre-step surrogate, or, when
\* no candidate qualifies, exactly at the pre-step parameters, reported as
\* a no-op and not as an error.
C2_LineSearchResult ==
    [][ (pc = "estimated" /\ pc' = "idle"
         /\ PolicyGrad(heap[policy_net], batch, batch_advantage) # 0) =>
        LET prev == heap[policy_net]
            dir == Sign(PolicyGrad(prev, batch, batch_advantage))
            cand(k) == prev + dir * (FullStepMag \div Pow(ShrinkDen, k))
            good(k) == /\ KL2(prev, cand(k)) <= MaxKL2
                       /\ Surrogate(cand(k), batch, batch_advantage)
                            >= Surrogate(prev, batch, batch_advantage)
            Good == {k \in 0..(MaxBacktracks - 1) : good(k)}
        IN IF Good # {}
           THEN /\ \E k \in Good :
                     /\ \A j \in Good : k <= j
                     /\ heap'[policy_net] = cand(k)
                /\ step_log'.status = "accepted"
           ELSE /\ heap'[policy_net] = prev
                /\ step_log'.status = "noop"
      ]_vars

\* C2 witness: a line search that rejected the full step and accepted a
\* shrunk one
C2_Witness ==
    /\ pc = "idle" /\ op = "learn"
    /\ step_log.status = "accepted" /\ step_log.tries > 1

\* a line search that exhausted its attempts
C2_NoopReached == pc = "idle" /\ op = "learn" /\ step_log.status = "noop"

Episode(masks, i) == Cardinality({j \in 1..(i - 1) : masks[j] = 0})

C4_EpisodesIsolated ==
    (pc = "estimated") =>
        LET N == Len(batch)
            R == Rewards(batch)
            M == Masks(batch)
            S == GaeScale(N, gamma, tau)
        IN /\ \A i \in 1..N : M[i] = 0 =>
                 /\ batch_advantage[i] = S * (R[i] - batch_value[i])
                 /\ batch_return[i] = S * R[i]
           /\ \A i \in 1..N, j \in 1..N : Episode(M, j) # Episode(M, i) =>
                 \A r \in RewardVals, v \in ValueVals :
                    LET alt == EstimateAdvantages([R EXCEPT ![j] = r], M,
                                                  [batch_value EXCEPT ![j] = v],
                                                  gamma, tau)
                    IN /\ alt.advantages[i] = batch_advantage[i]
                       /\ alt.returns[i] = batch_return[i]

\* C4 witness: estimates of a three-transition batch whose first episode
\* ends at the second transition and whose later episode carries reward
C4_Witness ==
    /\ pc = "estimated"
    /\ Len(batch) >= 3
    /\ batch[1].mask = 1 /\ batch[2].mask = 0
    /\ batch[3].reward = 1 /\ batch_value[3] # 0
    /\ batch_advantage[1] # 0

\* C5: a completed save leaves a file from which pickle.load gives back the
\* policy parameters, value parameters and normalizer state of that moment,
\* and a construction with that path binds exactly what the file holds.
C5_SaveLoadRoundTrip ==
    /\ (op = "save" /\ pc = "idle" /\ alive = "ok") =>
          /\ Loadable(fs[FileKey(save_path, env_id)])
          /\ PickleLoad(fs[FileKey(save_path, env_id)]) = CurrentUnit
    /\ (op = "construct" /\ alive = "ok" /\ model_path # None) =>
          /\ Loadable(fs[FileKey(model_path, env_id)])
          /\ CurrentUnit = PickleLoad(fs[FileKey(model_path, env_id)])
          /\ \A a \in Acts :
                LogProb(heap[policy_net], a)
                  = LogProb(PickleLoad(fs[FileKey(model_path, env_id)])[1], a)

\* C5 witness: an orchestrator restored from a file that was saved after
\* learning and observing
C5_Witness ==
    /\ op = "construct" /\ alive = "ok" /\ model_path # None
    /\ heap[policy_net] # InitTheta
    /\ heap[running_state].n > 0

\* C6: every persisted file is absent or a complete unit.
C6_SaveAtomic ==
    \A k \in DOMAIN fs : fs[k].exists => Loadable(fs[k])

\* C7: a construction with a model path whose file cannot be loaded ends in
\* an error, after one load attempt, with no collector and no value
\* optimizer created; nothing runs on such an object.
C7_LoadFailureSurfaced ==
    /\ (op = "construct" /\ model_path # None
        /\ ~Loadable(fs[FileKey(model_path, env_id)])) => alive = "error"
    /\ (alive = "error") =>
          /\ op = "construct" /\ pc = "idle"
          /\ model_path # None
          /\ load_attempts = 1
          /\ collector = NoCollector
          /\ optimizer_v = None

\* C7 witness: a construction failed on a file an interrupted save left
C7_Witness ==
    /\ alive = "error"
    /\ fs[FileKey(model_path, env_id)].exists

\* C8: eval's loop ends at the first done and changes neither the policy
\* parameters, nor the value parameters, nor the normalizer statistics.
C8_EvalLeavesStateUnchanged ==
    [][ (pc = "eval") => heap' = heap ]_vars

\* C9: a learn call without a logging sink goes on from collection to the
\* value estimates, the advantage estimation and the update.
C9_LearnWithoutSink ==
    [][ (pc = "collected" /\ ~writer) => pc' = "logged" ]_vars

\* C10: the collector samples from the policy and filters with the
\* normalizer that the orchestrator updates, evaluates with and saves; with
\* a model path these are the loaded objects.
C10_OnePolicyOneFilter ==
    (alive = "ok") =>
        /\ collector.policy = policy_net
        /\ collector.running_state = running_state
        /\ policy_net \in DOMAIN heap /\ running_state \in DOMAIN heap
        /\ (model_path # None) =>
              (policy_net = LoadedPol /\ running_state = LoadedRs)
        /\ (model_path = None) =>
              (policy_net = FreshPol /\ running_state = FreshRs)

\* C10 witness: a loaded orchestrator has learnt
C10_Witness ==
    /\ alive = "ok" /\ model_path # None /\ op = "learn"
    /\ step_log.status = "accepted"

====
